---------------------------- MODULE Spec2Model ----------------------------
(***************************************************************************)
(* Genetic search for the travelling salesman problem (src/app.js).        *)
(*                                                                         *)
(* Three specifications over the same definitions:                         *)
(*   Spec          one run of geneticAlgorithm, step by step               *)
(*   SeedSpec      the INIT stage of geneticAlgorithm with generations = 0 *)
(*   OperatorSpec  single calls of crossover and fitness on valid tours    *)
(*                                                                         *)
(* Tours are sequences of city indices; JavaScript index k is position     *)
(* k + 1 of the sequence.  The doubles that the code divides (fitness and  *)
(* the recorded distance) are exact fractions <<numerator, denominator>>:  *)
(* the distances of the model are small integers, on which the rounding of *)
(* 1 / x keeps the order of every comparison the code makes.  No property  *)
(* below rests on 1 / (1 / x) being x.                                     *)
(* Every draw of Math.random() is a nondeterministic choice.               *)
(***************************************************************************)
EXTENDS Integers, Sequences, FiniteSets

VARIABLES
    pc,               \* position of the run / of the operator call
    cities,           \* const cities                         (line 100)
    popSize,          \* parameter popSize                    (line 99)
    generations,      \* parameter generations                (line 99)
    mutationRate,     \* parameter mutationRate               (line 99)
    distMatrix,       \* const distMatrix                     (line 101)
    population,       \* let population                       (line 103)
    melhorTrajeto,    \* let melhorTrajeto                    (line 106)
    melhorDistancia,  \* let melhorDistancia                  (line 107)
    gen,              \* loop counter gen                     (line 109)
    newPopulation,    \* let newPopulation                    (line 110)
    i,                \* loop counter i                       (line 112)
    child1,           \* let child1                           (line 116)
    child2,           \* let child2                           (line 117)
    parent1,          \* crossover / fitness argument         (lines 50, 66)
    parent2,          \* crossover argument                   (line 66)
    start,            \* crossover's first cut point          (line 68)
    end,              \* crossover's second cut point         (line 68)
    child,            \* crossover's returned array           (line 84)
    totalDistance     \* fitness's totalDistance              (line 51)

vars == <<pc, cities, popSize, generations, mutationRate, distMatrix,
          population, melhorTrajeto, melhorDistancia, gen, newPopulation, i,
          child1, child2, parent1, parent2, start, end, child, totalDistance>>

runVars == <<cities, popSize, generations, mutationRate, distMatrix,
             population, melhorTrajeto, melhorDistancia, gen, newPopulation,
             i, child1, child2>>

opVars == <<parent1, parent2, start, end, child, totalDistance>>

---------------------------------------------------------------------------
(* Bounds of the model.                                                    *)

MaxCities == 3
MaxPop == 2
MaxGen == 2
MaxTour == 4

---------------------------------------------------------------------------
(* Values.                                                                 *)

\* Array(size).fill(-1): the marker of a child position not yet filled.
Unfilled == -1

\* What reading an array past its end yields (undefined); no city and not
\* the marker -1.
Undefined == -2

\* Number.MAX_VALUE, the fitness of a zero-length tour.  Any number above
\* every reciprocal 1 / totalDistance of a positive integer distance.
MaxValue == 1000000

Min(a, b) == IF a <= b THEN a ELSE b
Max(a, b) == IF a <= b THEN b ELSE a

\* Fractions <<n, d>> with n >= 0 and d > 0.
Recip(q) == <<q[2], q[1]>>
Lt(p, q) == p[1] * q[2] < q[1] * p[2]
Gt(p, q) == Lt(q, p)
Le(p, q) == ~Lt(q, p)

\* Math.floor(Math.random() * n): any index of an array of length n, and 0
\* when n is 0.
RandomIndex(n) == IF n = 0 THEN {0} ELSE 0 .. (n - 1)

\* Math.random() < mutationRate, for the three kinds of rate: 0 never
\* passes, 1 always passes, a rate strictly between may do either.
MutationRates == {"zero", "between", "one"}
RandomBelow(rate) ==
    CASE rate = "zero" -> {FALSE}
      [] rate = "one" -> {TRUE}
      [] OTHER -> {TRUE, FALSE}

\* The orders of [0, ..., n-1] that sort(() => Math.random() - 0.5) can
\* leave: the comparator is inconsistent, the result is some rearrangement.
Permutations(n) ==
    {s \in [1 .. n -> 0 .. (n - 1)] :
        \A a, b \in 1 .. n : a # b => s[a] # s[b]}

\* City k of the input file.  The points lie on a 3 x 4 grid, so that every
\* Euclidean distance is an integer (0, 3, 4 or 5).
Point(k) == <<3 * (k % 2), 4 * ((k \div 2) % 2)>>
Cities(n) == [k \in 1 .. n |-> Point(k - 1)]

\* Math.sqrt on the perfect squares the grid produces.
Sqrt(n) == CHOOSE r \in 0 .. n : r * r = n

---------------------------------------------------------------------------
(* distanceMatrix, fitness, selection.                                     *)

distanceMatrix(cs) ==
    [a \in 0 .. (Len(cs) - 1) |->
        [b \in 0 .. (Len(cs) - 1) |->
            IF a # b
            THEN LET dx == cs[a + 1][1] - cs[b + 1][1]
                     dy == cs[a + 1][2] - cs[b + 1][2]
                 IN  Sqrt(dx * dx + dy * dy)
            ELSE 0]]

\* route[k + 1] || route[0]: the next city, or the first one when the next
\* entry is missing (undefined) or is falsy, which city 0 is.
NextCity(rt, k) ==
    IF k + 1 < Len(rt) /\ rt[k + 2] # 0 THEN rt[k + 2] ELSE rt[1]

\* route.reduce((sum, city, k) => sum + distMatrix[city][...], 0)
RECURSIVE SumFrom(_, _, _)
SumFrom(rt, dm, k) ==
    IF k >= Len(rt) THEN 0
    ELSE dm[rt[k + 1]][NextCity(rt, k)] + SumFrom(rt, dm, k + 1)

TotalDistance(rt, dm) == SumFrom(rt, dm, 0)

fitness(rt, dm) ==
    LET total == TotalDistance(rt, dm)
    IN  IF total = 0 THEN <<MaxValue, 1>> ELSE <<1, total>>

\* arr.reduce((best, x) => fitness(x) > fitness(best) ? x : best), on a
\* non-empty array: the first element of greatest fitness.
RECURSIVE ReduceBest(_, _, _, _)
ReduceBest(arr, dm, k, best) ==
    IF k > Len(arr) THEN best
    ELSE ReduceBest(arr, dm, k + 1,
            IF Gt(fitness(arr[k], dm), fitness(best, dm)) THEN arr[k] ELSE best)

BestOf(arr, dm) == ReduceBest(arr, dm, 2, arr[1])

TournamentMax == 5

\* The tours selection can return: the best of tournamentSize tours drawn
\* from the population with replacement.
selection(pop, dm) ==
    LET tournamentSize == Min(TournamentMax, Len(pop))
    IN  {BestOf([k \in 1 .. tournamentSize |-> pop[draw[k]]], dm) :
            draw \in [1 .. tournamentSize -> 1 .. Len(pop)]}

---------------------------------------------------------------------------
(* crossover.                                                              *)

\* The sorted pairs [start, end] of two draws below size.
CutPoints(size) ==
    {<<Min(a, b), Max(a, b)>> : a, b \in RandomIndex(size)}

\* CopySlice with the slice taken one position to the right (a faulty
\* variant, used to test that the construction property reads the slice).
CopySliceShifted(p1, s, e) ==
    [k \in 1 .. Len(p1) |-> IF s < k - 1 /\ k - 1 <= e THEN p1[k] ELSE Unfilled]

\* new Array(size).fill(-1), then child[k] = parent1[k] for start <= k < end.
CopySlice(p1, s, e) ==
    [k \in 1 .. Len(p1) |-> IF s <= k - 1 /\ k - 1 < e THEN p1[k] ELSE Unfilled]

Includes(arr, v) == \E k \in 1 .. Len(arr) : arr[k] = v

ElementAt(arr, k) == IF k < Len(arr) THEN arr[k + 1] ELSE Undefined

\* SkipPlaced without its loop (a faulty variant: cities already placed
\* are not skipped).
SkipNothing(ch, p2, p2Index) == p2Index

\* while (child.includes(parent2[p2Index])) p2Index++
RECURSIVE SkipPlaced(_, _, _)
SkipPlaced(ch, p2, p2Index) ==
    IF Includes(ch, ElementAt(p2, p2Index))
    THEN SkipPlaced(ch, p2, p2Index + 1)
    ELSE p2Index

\* for (k = 0; k < size; k++) if (child[k] === -1) { skip; child[k] = ... }
RECURSIVE FillFrom(_, _, _, _)
FillFrom(ch, p2, k, p2Index) ==
    IF k >= Len(ch) THEN ch
    ELSE IF ch[k + 1] = Unfilled
         THEN LET j == SkipPlaced(ch, p2, p2Index)
              IN  FillFrom([ch EXCEPT ![k + 1] = ElementAt(p2, j)], p2, k + 1, j)
         ELSE FillFrom(ch, p2, k + 1, p2Index)

\* The child crossover returns when its draws give the cut points s, e.
crossoverAt(p1, p2, s, e) == FillFrom(CopySlice(p1, s, e), p2, 0, 0)

\* Every child crossover(p1, p2) can return.
crossover(p1, p2) ==
    {crossoverAt(p1, p2, c[1], c[2]) : c \in CutPoints(Len(p1))}

---------------------------------------------------------------------------
(* mutate.                                                                 *)

\* Swap that writes only route[a] (a faulty variant: route[b] keeps its
\* city, which then stands twice in the route).
Overwrite(rt, a, b) == [rt EXCEPT ![a + 1] = rt[b + 1]]

\* [route[a], route[b]] = [route[b], route[a]]
Swap(rt, a, b) == [rt EXCEPT ![a + 1] = rt[b + 1], ![b + 1] = rt[a + 1]]

---------------------------------------------------------------------------
(* One run of geneticAlgorithm.                                            *)

IdleOperator ==
    /\ parent1 = <<>>
    /\ parent2 = <<>>
    /\ start = 0
    /\ end = 0
    /\ child = <<>>
    /\ totalDistance = 0

\* The state once readTSPFile has returned the cities.
Entered(maxCities, gens) ==
    /\ pc = "start"
    /\ cities \in {Cities(n) : n \in 0 .. maxCities}
    /\ popSize \in 1 .. MaxPop
    /\ generations \in gens
    /\ mutationRate \in MutationRates
    /\ distMatrix = <<>>
    /\ population = <<>>
    /\ melhorTrajeto = <<>>
    /\ melhorDistancia = <<0, 1>>
    /\ gen = 0
    /\ newPopulation = <<>>
    /\ i = 0
    /\ child1 = <<>>
    /\ child2 = <<>>
    /\ IdleOperator

Init == Entered(MaxCities, 0 .. MaxGen)

\* Lines 101-107: the matrix, the initial population, the first record.
Initialize ==
    /\ pc = "start"
    /\ \E pop \in [1 .. popSize -> Permutations(Len(cities))] :
          LET dm == distanceMatrix(cities)
          IN  /\ distMatrix' = dm
              /\ population' = pop
              /\ melhorTrajeto' = pop[1]
              /\ melhorDistancia' = Recip(fitness(pop[1], dm))
    /\ pc' = "for"
    /\ UNCHANGED <<cities, popSize, generations, mutationRate, gen,
                   newPopulation, i, child1, child2>>
    /\ UNCHANGED opVars

\* Lines 109-112: a generation begins with an empty new population.
BeginGeneration ==
    /\ pc = "for"
    /\ gen < generations
    /\ newPopulation' = <<>>
    /\ i' = 0
    /\ pc' = "pair"
    /\ UNCHANGED <<cities, popSize, generations, mutationRate, distMatrix,
                   population, melhorTrajeto, melhorDistancia, gen, child1,
                   child2>>
    /\ UNCHANGED opVars

\* Lines 112-117: while i < popSize / 2, two parents and their two children.
Breed ==
    /\ pc = "pair"
    /\ 2 * i < popSize
    /\ \E p1 \in selection(population, distMatrix) :
       \E p2 \in selection(population, distMatrix) :
          /\ child1' \in crossover(p1, p2)
          /\ child2' \in crossover(p2, p1)
    /\ pc' = "mut1"
    /\ UNCHANGED <<cities, popSize, generations, mutationRate, distMatrix,
                   population, melhorTrajeto, melhorDistancia, gen,
                   newPopulation, i>>
    /\ UNCHANGED opVars

\* Lines 119 and 120: the Bernoulli trial of each child.
MutationTrial ==
    /\ pc \in {"mut1", "mut2"}
    /\ \E below \in RandomBelow(mutationRate) :
          pc' = IF below
                THEN (IF pc = "mut1" THEN "loop1" ELSE "loop2")
                ELSE (IF pc = "mut1" THEN "mut2" ELSE "push")
    /\ UNCHANGED runVars
    /\ UNCHANGED opVars

\* Lines 90-95: one round of mutate's do-while on the child under mutation.
\* Equal draws repeat the loop; different draws swap and return.
Mutate ==
    /\ pc \in {"loop1", "loop2"}
    /\ LET route == IF pc = "loop1" THEN child1 ELSE child2
       IN  \E a \in RandomIndex(Len(route)) :
           \E b \in RandomIndex(Len(route)) :
              \/ /\ a = b
                 /\ UNCHANGED <<pc, child1, child2>>
              \/ /\ a # b
                 /\ child1' = IF pc = "loop1" THEN Swap(route, a, b) ELSE child1
                 /\ child2' = IF pc = "loop2" THEN Swap(route, a, b) ELSE child2
                 /\ pc' = IF pc = "loop1" THEN "mut2" ELSE "push"
    /\ UNCHANGED <<cities, popSize, generations, mutationRate, distMatrix,
                   population, melhorTrajeto, melhorDistancia, gen,
                   newPopulation, i>>
    /\ UNCHANGED opVars

\* Line 122 and the loop's i++; child1 and child2 go out of scope.
Push ==
    /\ pc = "push"
    /\ newPopulation' = newPopulation \o <<child1, child2>>
    /\ i' = i + 1
    /\ child1' = <<>>
    /\ child2' = <<>>
    /\ pc' = "pair"
    /\ UNCHANGED <<cities, popSize, generations, mutationRate, distMatrix,
                   population, melhorTrajeto, melhorDistancia, gen>>
    /\ UNCHANGED opVars

\* Lines 125-136 and gen++: the new population replaces the old one and the
\* record is updated when the generation's best distance is smaller.
EndGeneration ==
    /\ pc = "pair"
    /\ ~(2 * i < popSize)
    /\ population' = newPopulation
    /\ LET melhorNaGeracao == BestOf(newPopulation, distMatrix)
           distanciaGeracao == Recip(fitness(melhorNaGeracao, distMatrix))
       IN  IF Lt(distanciaGeracao, melhorDistancia)
           THEN /\ melhorDistancia' = distanciaGeracao
                /\ melhorTrajeto' = melhorNaGeracao
           ELSE UNCHANGED <<melhorDistancia, melhorTrajeto>>
    /\ gen' = gen + 1
    /\ pc' = "for"
    /\ UNCHANGED <<cities, popSize, generations, mutationRate, distMatrix,
                   newPopulation, i, child1, child2>>
    /\ UNCHANGED opVars

\* Line 145: the loop is over, the record is returned.
Return ==
    /\ pc = "for"
    /\ ~(gen < generations)
    /\ pc' = "DONE"
    /\ UNCHANGED runVars
    /\ UNCHANGED opVars

Next ==
    \/ Initialize
    \/ BeginGeneration
    \/ Breed
    \/ MutationTrial
    \/ Mutate
    \/ Push
    \/ EndGeneration
    \/ Return

Spec == Init /\ [][Next]_vars

---------------------------------------------------------------------------
(* The INIT stage alone, on larger inputs: runs with generations = 0.      *)

SeedInit == Entered(MaxTour, {0})

SeedNext == Initialize \/ Return

SeedSpec == SeedInit /\ [][SeedNext]_vars

---------------------------------------------------------------------------
(* Single calls of crossover and fitness on valid tours.                   *)

OperatorInit ==
    /\ pc = "call"
    /\ cities \in {Cities(n) : n \in 1 .. MaxTour}
    /\ distMatrix = distanceMatrix(cities)
    /\ parent1 \in Permutations(Len(cities))
    /\ parent2 \in Permutations(Len(cities))
    /\ start = 0
    /\ end = 0
    /\ child = <<>>
    /\ totalDistance = 0
    /\ popSize = 1
    /\ generations = 0
    /\ mutationRate = "zero"
    /\ population = <<>>
    /\ melhorTrajeto = <<>>
    /\ melhorDistancia = <<0, 1>>
    /\ gen = 0
    /\ newPopulation = <<>>
    /\ i = 0
    /\ child1 = <<>>
    /\ child2 = <<>>

\* crossover(parent1, parent2), lines 66-85.
Crossover ==
    /\ pc = "call"
    /\ \E c \in CutPoints(Len(parent1)) :
          /\ start' = c[1]
          /\ end' = c[2]
          /\ child' = crossoverAt(parent1, parent2, c[1], c[2])
    /\ pc' = "crossed"
    /\ UNCHANGED <<parent1, parent2, totalDistance>>
    /\ UNCHANGED runVars

\* fitness(parent1, distMatrix), lines 50-54: its totalDistance.
Fitness ==
    /\ pc = "call"
    /\ totalDistance' = TotalDistance(parent1, distMatrix)
    /\ pc' = "measured"
    /\ UNCHANGED <<parent1, parent2, start, end, child>>
    /\ UNCHANGED runVars

OperatorNext == Crossover \/ Fitness

OperatorSpec == OperatorInit /\ [][OperatorNext]_vars

---------------------------------------------------------------------------
(* Reference notions the properties are stated with.                       *)

Range(seq) == {seq[k] : k \in 1 .. Len(seq)}

\* t has length n and holds each city index 0 .. n-1 exactly once.
IsPermutation(t, n) ==
    /\ Len(t) = n
    /\ \A c \in 0 .. (n - 1) : Cardinality({k \in 1 .. n : t[k] = c}) = 1

\* The length of the closed loop through t: every consecutive pair of
\* cities, and the last city back to the first.
RECURSIVE LoopFrom(_, _, _)
LoopFrom(t, dm, k) ==
    IF k > Len(t) THEN 0
    ELSE dm[t[k]][t[(k % Len(t)) + 1]] + LoopFrom(t, dm, k + 1)

ClosedLoopLength(t, dm) == LoopFrom(t, dm, 1)

InGeneration == {"pair", "mut1", "loop1", "mut2", "loop2", "push"}
ChildrenInFlight == {"mut1", "loop1", "mut2", "loop2", "push"}

\* Every tour the run holds at this moment.
ToursInPlay ==
    Range(population) \cup Range(newPopulation)
        \cup (IF pc \in ChildrenInFlight THEN {child1, child2} ELSE {})
        \cup (IF pc # "start" THEN {melhorTrajeto} ELSE {})

---------------------------------------------------------------------------
(* C1.  Permutation invariant over the whole run: with N >= 1 cities,      *)
(* every tour of the initial population, of every later population (after  *)
(* crossover and after mutation), every child and the recorded best tour   *)
(* has length N and holds each city index 0 .. N-1 exactly once.           *)
PermutationInvariant ==
    Len(cities) >= 1 =>
        \A t \in ToursInPlay : IsPermutation(t, Len(cities))

\* A second-generation pair of children, both new to the population they
\* were bred from and different from each other, about to be pushed.
PermutationWitness ==
    /\ pc = "push"
    /\ gen >= 1
    /\ Len(cities) = 3
    /\ child1 # child2
    /\ child1 \notin Range(population)
    /\ child2 \notin Range(population)

---------------------------------------------------------------------------
(* C2.  Crossover validity: for parents that are permutations of 0 .. N-1  *)
(* the child crossover returns has length N and holds every city index     *)
(* exactly once, whatever cut points it drew (start = end included); and   *)
(* its two loops give such a child for every pair 0 <= start <= end <= N,  *)
(* the pair 0, N (the whole parent), which the draws never give, included. *)
CrossoverValidity ==
    /\ pc = "crossed" => IsPermutation(child, Len(parent1))
    /\ pc = "call" =>
          \A s \in 0 .. Len(parent1) : \A e \in s .. Len(parent1) :
              IsPermutation(crossoverAt(parent1, parent2, s, e), Len(parent1))

\* An empty slice on different parents of four cities.
CrossoverValidityWitness ==
    /\ pc = "crossed"
    /\ Len(parent1) = 4
    /\ parent1 # parent2
    /\ start = end
    /\ start = 2

---------------------------------------------------------------------------
(* C3.  Closed-loop tour length: for every permutation tour, the total     *)
(* distance fitness computes is the sum of the distances between           *)
(* consecutive cities plus the distance from the last city back to the     *)
(* first, wherever city 0 stands in the tour.                              *)
ClosedLoopTotal ==
    pc = "measured" => totalDistance = ClosedLoopLength(parent1, distMatrix)

---------------------------------------------------------------------------
(* C4.  Monotone improvement: after INIT the recorded best distance never  *)
(* increases; a step leaves it unchanged or makes it strictly smaller, and *)
(* it changes only when the new generation's best (shortest) tour is       *)
(* strictly shorter than the recorded tour.                                *)
GenerationBestIsShorter ==
    \E best \in Range(population') :
        /\ \A t \in Range(population') :
              ClosedLoopLength(best, distMatrix) <= ClosedLoopLength(t, distMatrix)
        /\ ClosedLoopLength(best, distMatrix)
              < ClosedLoopLength(melhorTrajeto, distMatrix)

MonotoneImprovement ==
    [][pc # "start" =>
        /\ Le(melhorDistancia', melhorDistancia)
        /\ melhorDistancia' # melhorDistancia =>
              /\ Lt(melhorDistancia', melhorDistancia)
              /\ GenerationBestIsShorter]_vars

---------------------------------------------------------------------------
(* C5.  Empty input is rejected: with zero cities the run stops at entry:  *)
(* no population is created, no generation runs, no result is returned.    *)
EmptyInputRejected ==
    Len(cities) = 0 =>
        /\ population = <<>>
        /\ gen = 0
        /\ pc # "DONE"

---------------------------------------------------------------------------
(* C6.  Best-so-far seeding: once INIT is over the recorded best tour is a *)
(* tour of the initial population and no tour of the initial population is *)
(* shorter than it, so that a run of 0 generations returns the initial     *)
(* population's shortest tour.                                             *)
SeededWithShortest ==
    (pc \in {"for", "DONE"} /\ gen = 0) =>
        /\ melhorTrajeto \in Range(population)
        /\ \A t \in Range(population) :
              ClosedLoopLength(melhorTrajeto, distMatrix)
                  <= ClosedLoopLength(t, distMatrix)

---------------------------------------------------------------------------
(* C7.  Crossover construction: the child equals parent1 on the copied     *)
(* slice start <= k < end; its other positions, read left to right, hold   *)
(* exactly the cities of parent2 that are not in the slice, in parent2's   *)
(* order; and the call leaves both parent arrays as they were.             *)
SliceCities == {parent1[k + 1] : k \in start .. (end - 1)}

NotInSlice(c) == c \notin SliceCities

OutsideSlice(k) == ~(start <= k - 1 /\ k - 1 < end)

\* The child's entries outside the slice, left to right.
Remainder ==
    LET at == SelectSeq([k \in 1 .. Len(child) |-> k], OutsideSlice)
    IN  [j \in 1 .. Len(at) |-> child[at[j]]]

Constructed ==
    /\ Len(child) = Len(parent1)
    /\ \A k \in start .. (end - 1) : child[k + 1] = parent1[k + 1]
    /\ Remainder = SelectSeq(parent2, NotInSlice)

CrossoverConstruction ==
    [][pc' = "crossed" =>
        /\ Constructed'
        /\ parent1' = parent1
        /\ parent2' = parent2]_vars

\* A two-city slice in the middle of four cities; the child is neither
\* parent.
CrossoverConstructionWitness ==
    /\ pc = "crossed"
    /\ Len(parent1) = 4
    /\ start = 1
    /\ end = 3
    /\ child # parent1
    /\ child # parent2

---------------------------------------------------------------------------
(* C8.  Termination: with N >= 1 cities the run never reaches a point      *)
(* short of DONE from which no step changes its state, and it is DONE only *)
(* after exactly `generations` generations.                                *)
RunCompletes ==
    Len(cities) >= 1 =>
        /\ pc = "DONE" \/ ENABLED <<Next>>_vars
        /\ pc = "DONE" => gen = generations

---------------------------------------------------------------------------
(* C9.  Fixed population size: at INIT and after every generation the      *)
(* population holds exactly popSize tours, for even and odd popSize.       *)
FixedPopulationSize ==
    pc # "start" => Len(population) = popSize

---------------------------------------------------------------------------
(* C10. Mutation frame, for N >= 2 cities: a mutate call exchanges the     *)
(* contents of two distinct positions of the child and leaves its other    *)
(* positions alone; no step of a generation changes a tour of the current  *)
(* population or the recorded best tour; and the recorded best distance is *)
(* at all times the length of the recorded best tour.                      *)
ExchangesTwo(old, new) ==
    \E a, b \in 1 .. Len(old) :
        /\ a # b
        /\ new = [old EXCEPT ![a] = old[b], ![b] = old[a]]

MutationFrame ==
    [][Len(cities) >= 2 =>
        /\ (pc = "loop1" /\ pc' # pc) =>
              ExchangesTwo(child1, child1') /\ child2' = child2
        /\ (pc = "loop2" /\ pc' # pc) =>
              ExchangesTwo(child2, child2') /\ child1' = child1
        /\ (pc \in InGeneration /\ pc' \in InGeneration) =>
              population' = population /\ melhorTrajeto' = melhorTrajeto
        /\ melhorDistancia' =
              <<ClosedLoopLength(melhorTrajeto', distMatrix'), 1>>]_vars

===========================================================================
